---------------------------- MODULE Spec2Model ----------------------------
(***************************************************************************)
(* Backward register-definition search of capa's vivisect extractor        *)
(* (capa/features/extractors/viv/indirect_calls.py).                       *)
(*                                                                         *)
(* The vivisect workspace `vw` is a read-only store: a location map, the   *)
(* decoder's answer at every address, the cross-references listed by       *)
(* target, and the function every address belongs to.  Addresses are       *)
(* counted in locations: the location right before address a is a - 1.     *)
(* find_definition runs one iteration of its while loop per step.          *)
(***************************************************************************)
EXTENDS Integers, Sequences, FiniteSets, TLC

VARIABLES
    vw,        \* the workspace: [loc, code, xrefs_by_to, func]
    va,        \* va[r]: the address request r was called with
    reg,       \* reg[r]: the register request r studies
    pc,        \* pc[r]: where request r is
    q,         \* q[r]: the deque of find_definition
    seen,      \* seen[r]: the set of find_definition
    parsed,    \* parsed[r]: the addresses handed to vw.parseOpcode, in order
    result     \* result[r]: <<>> or the returned pair <<cur, value>>

vars == <<vw, va, reg, pc, q, seen, parsed, result>>

(***************************************************************************)
(* Bounds of the model.                                                    *)
(***************************************************************************)
NumAddr == 3
MaxXrefs == 2
NumReq == 2

Addrs == 1..NumAddr
Reqs == 1..NumReq

(***************************************************************************)
(* Operands and instructions as envi decodes them.                         *)
(***************************************************************************)
Regs == {"eax", "ebx"}
NoReg == "-"

\* Python's None, and a value that is not None.
None == <<>>
Some(v) == <<v>>

i386RegOper(r)     == [cls |-> "i386RegOper",     reg |-> r,     imm |-> 0]
i386ImmOper(v)     == [cls |-> "i386ImmOper",     reg |-> NoReg, imm |-> v]
i386ImmMemOper(a)  == [cls |-> "i386ImmMemOper",  reg |-> NoReg, imm |-> a]
Amd64RipRelOper(d) == [cls |-> "Amd64RipRelOper", reg |-> NoReg, imm |-> d]
i386RegMemOper(r)  == [cls |-> "i386RegMemOper",  reg |-> r,     imm |-> 0]
i386SibOper(r, d)  == [cls |-> "i386SibOper",     reg |-> r,     imm |-> d]
i386PcRelOper(d)   == [cls |-> "i386PcRelOper",   reg |-> NoReg, imm |-> d]

\* isinstance(oper, cls): the operand classes do not derive from each other.
isinstance(oper, cls) == oper.cls = cls

\* i386ImmOper.getOperValue(op): the immediate itself.
getOperValue(oper, op) == oper.imm

\* i386ImmMemOper.getOperAddr(op): the address the operand names, not its contents.
ImmMem_getOperAddr(oper, op) == oper.imm

\* Amd64RipRelOper.getOperAddr(op): the end of the instruction plus the displacement.
RipRel_getOperAddr(oper, op) == op.va + op.size + oper.imm

IF_NOFALL == "IF_NOFALL"
LOC_OP == "LOC_OP"
LOC_STRING == "LOC_STRING"
REF_CODE == "REF_CODE"
REF_DATA == "REF_DATA"

\* xflag & FAR_BRANCH_MASK: branch flags are sets of flag names.
FAR_BRANCH_MASK == {"BR_PROC", "BR_DEREF", "BR_ARCH"}

DESTRUCTIVE_MNEMONICS == {"mov", "lea", "pop", "xor"}

\* What the decoder stores for an instruction: mnemonic, operands, size, flags.
Op(mnem, opers, iflags) == [mnem |-> mnem, opers |-> opers, size |-> 1, iflags |-> iflags]

\* The decoder's answer at an address that does not decode.
NoInsn == [mnem |-> "(invalid)", opers |-> <<>>, size |-> 0, iflags |-> {}]

(***************************************************************************)
(* The workspace's own operations.                                         *)
(***************************************************************************)
NoLoc == [ltype |-> "none", tinfo |-> {}]

\* vw.getPrevLocation(va, adjacent=True): the location ending right before va,
\* as <<(L_VA, L_SIZE, L_LTYPE, L_TINFO)>>, or None.
getPrevLocation(w, a) ==
    IF (a - 1) \in DOMAIN w.loc /\ w.loc[a - 1] # NoLoc
    THEN Some(<<a - 1, 1, w.loc[a - 1].ltype, w.loc[a - 1].tinfo>>)
    ELSE None

\* vw.getXrefsTo(va, rtype): the references to va of that type, in the store's order.
getXrefsTo(w, a, rtype) ==
    IF a \in DOMAIN w.xrefs_by_to
    THEN SelectSeq(w.xrefs_by_to[a], LAMBDA x : x[3] = rtype)
    ELSE <<>>

\* The decoder's failure caught and taken for an instruction without operands.
Decodes_Always(w, a) == TRUE

\* vw.parseOpcode(va) succeeds.
Decodes(w, a) == a \in DOMAIN w.code /\ w.code[a] # NoInsn

\* vw.parseOpcode(va): the instruction, knowing its own address.
parseOpcode(w, a) ==
    [mnem |-> w.code[a].mnem, opers |-> w.code[a].opers,
     size |-> w.code[a].size, va |-> a]

(***************************************************************************)
(* get_previous_instructions                                               *)
(***************************************************************************)
\* The no-fallthrough flag not looked at.
PrevFallthrough_IgnoreNoFall(w, a) ==
    LET loc == getPrevLocation(w, a) IN
    IF loc # None /\ loc[1][3] = LOC_OP THEN <<loc[1][1]>> ELSE <<>>

\* lines 35-44: the immediate prior instruction, if it falls through.
PrevFallthrough(w, a) ==
    LET loc == getPrevLocation(w, a) IN
    IF loc # None
    THEN LET pva == loc[1][1]
             ptype == loc[1][3]
             pinfo == loc[1][4]
         IN IF ptype = LOC_OP /\ ~(IF_NOFALL \in pinfo) THEN <<pva>> ELSE <<>>
    ELSE <<>>

\* Only procedure calls taken for far branches.
IsFarBranch_ProcOnly(xflag) == (xflag \cap {"BR_PROC"}) # {}

\* line 52: the reference is a far branch.
IsFarBranch(xflag) == (xflag \cap FAR_BRANCH_MASK) # {}

RECURSIVE NearXrefSources(_)
\* lines 51-54: the sources of the references that are not far branches, in order.
NearXrefSources(xrefs) ==
    IF xrefs = <<>> THEN <<>>
    ELSE LET xfrom == Head(xrefs)[1]
             xflag == Head(xrefs)[4]
         IN IF IsFarBranch(xflag)
            THEN NearXrefSources(Tail(xrefs))
            ELSE <<xfrom>> \o NearXrefSources(Tail(xrefs))

\* The cross-references collected before the fallthrough.
get_previous_instructions_XrefsFirst(w, a) ==
    NearXrefSources(getXrefsTo(w, a, REF_CODE)) \o PrevFallthrough(w, a)

get_previous_instructions(w, a) ==
    PrevFallthrough(w, a) \o NearXrefSources(getXrefsTo(w, a, REF_CODE))

(***************************************************************************)
(* find_definition: what one iteration decides about the instruction.      *)
(***************************************************************************)
\* The register of the first operand not compared.
IsDefinition_AnyRegister(insn, r) ==
    /\ Len(insn.opers) # 0
    /\ isinstance(insn.opers[1], "i386RegOper")
    /\ insn.mnem \in DESTRUCTIVE_MNEMONICS

\* The mnemonic not looked at.
IsDefinition_AnyMnemonic(insn, r) ==
    /\ Len(insn.opers) # 0
    /\ isinstance(insn.opers[1], "i386RegOper")
    /\ insn.opers[1].reg = r

\* Only mov taken for destructive.
IsDefinition_MovOnly(insn, r) ==
    /\ Len(insn.opers) # 0
    /\ isinstance(insn.opers[1], "i386RegOper")
    /\ insn.opers[1].reg = r
    /\ insn.mnem = "mov"

\* lines 93-101: the instruction is destructive to the register.
IsDefinition(insn, r) ==
    /\ Len(insn.opers) # 0
    /\ isinstance(insn.opers[1], "i386RegOper")
    /\ insn.opers[1].reg = r
    /\ insn.mnem \in DESTRUCTIVE_MNEMONICS

\* The address of a RIP-relative operand taken to be its displacement.
DefinitionValue_RipDisp(insn) ==
    IF insn.mnem # "mov"
    THEN None
    ELSE LET opnd1 == insn.opers[2] IN
         IF isinstance(opnd1, "i386ImmOper")
         THEN Some(getOperValue(opnd1, opnd1))
         ELSE IF isinstance(opnd1, "i386ImmMemOper")
         THEN Some(ImmMem_getOperAddr(opnd1, opnd1))
         ELSE IF isinstance(opnd1, "Amd64RipRelOper")
         THEN Some(opnd1.imm)
         ELSE None

\* lea handled like mov.
DefinitionValue_LeaToo(insn) ==
    IF insn.mnem \notin {"mov", "lea"}
    THEN None
    ELSE LET opnd1 == insn.opers[2] IN
         IF isinstance(opnd1, "i386ImmOper")
         THEN Some(getOperValue(opnd1, opnd1))
         ELSE IF isinstance(opnd1, "i386ImmMemOper")
         THEN Some(ImmMem_getOperAddr(opnd1, opnd1))
         ELSE IF isinstance(opnd1, "Amd64RipRelOper")
         THEN Some(RipRel_getOperAddr(opnd1, insn))
         ELSE None

\* lines 110-122: the constant, if the instruction is `mov $reg, constant`.
\* Every mov the decoder produces has two operands, so opers[1] exists.
DefinitionValue(insn) ==
    IF insn.mnem # "mov"
    THEN None
    ELSE LET opnd1 == insn.opers[2] IN
         IF isinstance(opnd1, "i386ImmOper")
         THEN Some(getOperValue(opnd1, opnd1))
         ELSE IF isinstance(opnd1, "i386ImmMemOper")
         THEN Some(ImmMem_getOperAddr(opnd1, opnd1))
         ELSE IF isinstance(opnd1, "Amd64RipRelOper")
         THEN Some(RipRel_getOperAddr(opnd1, insn))
         ELSE None

(***************************************************************************)
(* is_indirect_call: `and` evaluates its right side only for a call.       *)
(***************************************************************************)
\* A call through memory addressed by a register taken for a register call.
is_indirect_call_Deref(insn) ==
    IF insn.mnem = "call"
    THEN isinstance(insn.opers[1], "i386RegOper") \/ isinstance(insn.opers[1], "i386RegMemOper")
    ELSE FALSE

is_indirect_call(insn) ==
    IF insn.mnem = "call"
    THEN isinstance(insn.opers[1], "i386RegOper")
    ELSE FALSE

(***************************************************************************)
(* The calls.  A request is idle until its caller calls one of the         *)
(* functions; find_definition then runs one loop iteration per step.       *)
(***************************************************************************)
Terminal == {"returned", "NotFoundError", "decode_error", "classified", "listed",
             "AssertionError"}

Done(r) == pc[r] \in Terminal

\* The previous instructions put at the front of the queue: a stack.
Extend_Left(dq, items) == items \o dq

\* lines 82, 94, 102: q.extend(items).
Extend(dq, items) == dq \o items

\* One deque for all calls: a call finds what the first call left in it.
NewDeque_Shared(qs) == qs[1]

\* line 79: collections.deque(), a new object whatever the deques qs of the
\* other calls hold.
NewDeque(qs) == <<>>

\* One set kept by the module: a call finds the addresses of all calls in it.
NewSeen_Persistent(ss) == UNION {ss[i] : i \in DOMAIN ss}

\* line 80: set([]), a new object whatever the sets ss of the other calls hold.
NewSeen(ss) == {}

\* lines 79-82: q and seen are new objects of this call; q starts as the
\* previous instructions of va.
FindDefinitionEntry(r) ==
    /\ pc[r] = "idle"
    /\ q' = [q EXCEPT ![r] = Extend(NewDeque(q), get_previous_instructions(vw, va[r]))]
    /\ seen' = [seen EXCEPT ![r] = NewSeen(seen)]
    /\ pc' = [pc EXCEPT ![r] = "loop"]
    /\ UNCHANGED <<vw, va, reg, parsed, result>>

\* The check of line 87 left out.
AlreadySeen_Never(cur, s) == FALSE

\* lines 83-88: cur was processed before.
AlreadySeen(cur, s) == cur \in s

SkipSeen(r) ==
    /\ pc[r] = "loop"
    /\ q[r] # <<>>
    /\ AlreadySeen(Head(q[r]), seen[r])
    /\ q' = [q EXCEPT ![r] = Tail(q[r])]
    /\ UNCHANGED <<vw, va, reg, pc, seen, parsed, result>>

\* lines 84-91: vw.parseOpcode(cur) raises; the exception leaves find_definition.
DecodeFails(r) ==
    /\ pc[r] = "loop"
    /\ q[r] # <<>>
    /\ ~AlreadySeen(Head(q[r]), seen[r])
    /\ ~Decodes(vw, Head(q[r]))
    /\ q' = [q EXCEPT ![r] = Tail(q[r])]
    /\ seen' = [seen EXCEPT ![r] = seen[r] \cup {Head(q[r])}]
    /\ parsed' = [parsed EXCEPT ![r] = Append(parsed[r], Head(q[r]))]
    /\ pc' = [pc EXCEPT ![r] = "decode_error"]
    /\ UNCHANGED <<vw, va, reg, result>>

\* lines 84-103: cur has no operands, or is no definition of the register:
\* its previous instructions join the queue.
SearchFurther(r) ==
    /\ pc[r] = "loop"
    /\ q[r] # <<>>
    /\ ~AlreadySeen(Head(q[r]), seen[r])
    /\ Decodes(vw, Head(q[r]))
    /\ ~IsDefinition(parseOpcode(vw, Head(q[r])), reg[r])
    /\ q' = [q EXCEPT ![r] = Extend(Tail(q[r]), get_previous_instructions(vw, Head(q[r])))]
    /\ seen' = [seen EXCEPT ![r] = seen[r] \cup {Head(q[r])}]
    /\ parsed' = [parsed EXCEPT ![r] = Append(parsed[r], Head(q[r]))]
    /\ UNCHANGED <<vw, va, reg, pc, result>>

\* lines 84-122: cur is destructive to the register: return it with its value.
ReturnDefinition(r) ==
    /\ pc[r] = "loop"
    /\ q[r] # <<>>
    /\ ~AlreadySeen(Head(q[r]), seen[r])
    /\ Decodes(vw, Head(q[r]))
    /\ IsDefinition(parseOpcode(vw, Head(q[r])), reg[r])
    /\ q' = [q EXCEPT ![r] = Tail(q[r])]
    /\ seen' = [seen EXCEPT ![r] = seen[r] \cup {Head(q[r])}]
    /\ parsed' = [parsed EXCEPT ![r] = Append(parsed[r], Head(q[r]))]
    /\ result' = [result EXCEPT ![r] =
                    <<Head(q[r]), DefinitionValue(parseOpcode(vw, Head(q[r])))>>]
    /\ pc' = [pc EXCEPT ![r] = "returned"]
    /\ UNCHANGED <<vw, va, reg>>

\* lines 83, 124: the queue is empty.
RaiseNotFound(r) ==
    /\ pc[r] = "loop"
    /\ q[r] = <<>>
    /\ pc' = [pc EXCEPT ![r] = "NotFoundError"]
    /\ UNCHANGED <<vw, va, reg, q, seen, parsed, result>>

RECURSIVE find_definition_loop(_, _, _, _)
\* lines 83-124 run to the end by a caller that does nothing else: how the
\* call ends, and the pair it returns.
find_definition_loop(w, r, dq, s) ==
    IF dq = <<>>
    THEN <<"NotFoundError", <<>> >>
    ELSE LET cur == Head(dq) IN
         IF AlreadySeen(cur, s)
         THEN find_definition_loop(w, r, Tail(dq), s)
         ELSE IF ~Decodes(w, cur)
         THEN <<"decode_error", <<>> >>
         ELSE IF ~IsDefinition(parseOpcode(w, cur), r)
         THEN find_definition_loop(w, r,
                  Extend(Tail(dq), get_previous_instructions(w, cur)), s \cup {cur})
         ELSE <<"returned", <<cur, DefinitionValue(parseOpcode(w, cur))>> >>

\* lines 63-124: find_definition(vw, va, reg) called alone, as one step.
find_definition(w, a, r) ==
    find_definition_loop(w, r, Extend(<<>>, get_previous_instructions(w, a)), {})

\* The register taken to be eax whatever the call names.
CallTargetRegister_Fixed(insn) == "eax"

\* line 154: insn.opers[0].reg.
CallTargetRegister(insn) == insn.opers[1].reg

\* lines 149-150: resolve_indirect_call decodes va itself, and the decoder fails.
ResolveDecodeFails(r) ==
    /\ pc[r] = "resolve"
    /\ ~Decodes(vw, va[r])
    /\ pc' = [pc EXCEPT ![r] = "decode_error"]
    /\ UNCHANGED <<vw, va, reg, q, seen, parsed, result>>

\* lines 149-152: the instruction at va is no indirect call: the assert fails.
ResolveAssertFails(r) ==
    /\ pc[r] = "resolve"
    /\ Decodes(vw, va[r])
    /\ ~is_indirect_call(parseOpcode(vw, va[r]))
    /\ pc' = [pc EXCEPT ![r] = "AssertionError"]
    /\ UNCHANGED <<vw, va, reg, q, seen, parsed, result>>

\* lines 149-154 and 79-82: the assert passes and find_definition is entered
\* with the register of the first operand; what it returns or raises is what
\* resolve_indirect_call returns or raises.
ResolveDelegates(r) ==
    /\ pc[r] = "resolve"
    /\ Decodes(vw, va[r])
    /\ is_indirect_call(parseOpcode(vw, va[r]))
    /\ reg' = [reg EXCEPT ![r] = CallTargetRegister(parseOpcode(vw, va[r]))]
    /\ q' = [q EXCEPT ![r] = Extend(NewDeque(q), get_previous_instructions(vw, va[r]))]
    /\ seen' = [seen EXCEPT ![r] = NewSeen(seen)]
    /\ pc' = [pc EXCEPT ![r] = "loop"]
    /\ UNCHANGED <<vw, va, parsed, result>>

\* lines 22-56, called by itself.
GetPreviousInstructions(r) ==
    /\ pc[r] = "list"
    /\ result' = [result EXCEPT ![r] = <<get_previous_instructions(vw, va[r])>>]
    /\ pc' = [pc EXCEPT ![r] = "listed"]
    /\ UNCHANGED <<vw, va, reg, q, seen, parsed>>

\* lines 127-132, called with the decoded instruction at va.
IsIndirectCall(r) ==
    /\ pc[r] = "idle"
    /\ Decodes(vw, va[r])
    /\ result' = [result EXCEPT ![r] = <<is_indirect_call(parseOpcode(vw, va[r]))>>]
    /\ pc' = [pc EXCEPT ![r] = "classified"]
    /\ UNCHANGED <<vw, va, reg, q, seen, parsed>>

Next ==
    \E r \in Reqs :
        \/ FindDefinitionEntry(r)
        \/ SkipSeen(r)
        \/ DecodeFails(r)
        \/ SearchFurther(r)
        \/ ReturnDefinition(r)
        \/ RaiseNotFound(r)

\* The caller may also classify the instruction at va.
NextInsn ==
    \/ Next
    \/ \E r \in Reqs : IsIndirectCall(r)

\* One caller makes the calls one after the other: a call starts when the
\* calls before it have ended.
NextSeq ==
    \E r \in Reqs :
        /\ \A i \in 1..(r - 1) : Done(i)
        /\ \/ FindDefinitionEntry(r)
           \/ SkipSeen(r)
           \/ DecodeFails(r)
           \/ SearchFurther(r)
           \/ ReturnDefinition(r)
           \/ RaiseNotFound(r)

\* The caller calls get_previous_instructions.
NextPrev == \E r \in Reqs : GetPreviousInstructions(r)

\* The caller calls resolve_indirect_call.
NextResolve ==
    \E r \in Reqs :
        \/ ResolveDecodeFails(r)
        \/ ResolveAssertFails(r)
        \/ ResolveDelegates(r)
        \/ SkipSeen(r)
        \/ DecodeFails(r)
        \/ SearchFurther(r)
        \/ ReturnDefinition(r)
        \/ RaiseNotFound(r)

(***************************************************************************)
(* The workspaces and requests the specifications start from.              *)
(***************************************************************************)
\* A decoded instruction and its location; a location that is data; no location.
OpCell(insn) == [loc |-> [ltype |-> LOC_OP, tinfo |-> insn.iflags], code |-> insn]
DataCell == [loc |-> [ltype |-> LOC_STRING, tinfo |-> {}], code |-> NoInsn]
GapCell == [loc |-> NoLoc, code |-> NoInsn]

I_nop == Op("nop", <<>>, {})
I_ret == Op("ret", <<>>, {IF_NOFALL})
I_add == Op("add", <<i386RegOper("eax"), i386ImmOper(1)>>, {})
I_mov == Op("mov", <<i386RegOper("eax"), i386ImmOper(4660)>>, {})
I_pop == Op("pop", <<i386RegOper("eax")>>, {})

CfgCells == {OpCell(I_nop), OpCell(I_ret), OpCell(I_add), OpCell(I_mov),
             OpCell(I_pop), DataCell}

CfgFlags == {{}, {"BR_PROC"}}

\* The sequences over S of length at most n.
SeqsUpTo(S, n) == UNION {[1..k -> S] : k \in 0..n}

\* Cross-references as the workspace keeps them: listed by target, in order.
ByTo(xrefs) == [a \in Addrs |-> SelectSeq(xrefs, LAMBDA x : x[2] = a)]

XrefTables(rtypes, flags) ==
    {ByTo(xs) : xs \in SeqsUpTo(Addrs \X Addrs \X rtypes \X flags, MaxXrefs)}

\* Functions laid out one after the other: the addresses from k on belong to
\* the function entered at k, the addresses before k to the function entered at 1.
FuncMaps == {[a \in Addrs |-> IF a < k THEN 1 ELSE k] : k \in Addrs}

Workspace(cells, xrefs, func) ==
    [loc |-> [a \in Addrs |-> cells[a].loc],
     code |-> [a \in Addrs |-> cells[a].code],
     xrefs_by_to |-> xrefs,
     func |-> func]

\* Request 1 is about to be called; the others are never called.
OneRequest(a, r) ==
    /\ va = [i \in Reqs |-> IF i = 1 THEN a ELSE 1]
    /\ reg = [i \in Reqs |-> IF i = 1 THEN r ELSE "eax"]
    /\ pc = [i \in Reqs |-> IF i = 1 THEN "idle" ELSE "off"]
    /\ q = [i \in Reqs |-> <<>>]
    /\ seen = [i \in Reqs |-> {}]
    /\ parsed = [i \in Reqs |-> <<>>]
    /\ result = [i \in Reqs |-> <<>>]

\* Any layout of a few instruction kinds, any short list of code references.
Init ==
    /\ \E cells \in [Addrs -> CfgCells], xrefs \in XrefTables({REF_CODE}, CfgFlags) :
           vw = Workspace(cells, xrefs, [a \in Addrs |-> 1])
    /\ \E a \in Addrs, r \in Regs : OneRequest(a, r)

(***************************************************************************)
(* The instructions of the second family: every operand shape.             *)
(***************************************************************************)
RegOpers == {i386RegOper(r) : r \in Regs}
MemOpers == {i386ImmMemOper(4198400), Amd64RipRelOper(16), Amd64RipRelOper(-8),
             i386RegMemOper("eax"), i386SibOper("ebx", 8)}
ImmOpers == {i386ImmOper(4660), i386ImmOper(0)}

TwoOperandInsns ==
    {Op(m, <<d, s>>, {}) : m \in {"mov", "xor", "add"},
                           d \in RegOpers \cup {i386RegMemOper("eax")},
                           s \in RegOpers \cup MemOpers \cup ImmOpers}
    \cup {Op("lea", <<d, s>>, {}) : d \in RegOpers, s \in MemOpers}

OneOperandInsns ==
    {Op(m, <<o>>, {}) : m \in {"pop", "push", "call"},
                        o \in RegOpers \cup {i386ImmMemOper(4198400), i386RegMemOper("eax")}}
    \cup {Op("call", <<o>>, {}) : o \in {i386PcRelOper(32), i386ImmOper(4198400)}}
    \cup {Op("jmp", <<o>>, {IF_NOFALL}) : o \in RegOpers \cup {i386PcRelOper(32)}}

\* x86 has no instruction with two memory operands.
InsnSet ==
    {i \in TwoOperandInsns : i.opers[1] \in RegOpers \/ i.opers[2] \notin MemOpers}
    \cup OneOperandInsns \cup {I_nop, I_ret}

\* The instruction right before the last address is any of InsnSet, the others
\* are of a few kinds; that instruction may also refer to the last address.
InsnCells ==
    {[a \in Addrs |-> IF a = NumAddr - 1 THEN c ELSE o[a]] :
        c \in {OpCell(i) : i \in InsnSet} \cup {DataCell},
        o \in [Addrs -> {OpCell(I_nop), OpCell(I_add), OpCell(I_mov), OpCell(I_pop), DataCell}]}

InsnXrefs ==
    {ByTo(xs) : xs \in {<<>>} \cup
        {<<(<<a, NumAddr, t, {}>>)>> : a \in {1, NumAddr - 1}, t \in {REF_CODE, REF_DATA}}}

InitInsn ==
    /\ \E cells \in InsnCells, xrefs \in InsnXrefs :
           vw = Workspace(cells, xrefs, [a \in Addrs |-> 1])
    /\ \E a \in Addrs, r \in Regs : OneRequest(a, r)

SpecInsn == InitInsn /\ [][NextInsn]_vars

(***************************************************************************)
(* The third family: every branch flag, locations of every kind, and the   *)
(* functions the addresses belong to.                                      *)
(***************************************************************************)
XrefCells == {OpCell(I_nop), OpCell(I_mov), GapCell}

XrefFlags == {{}, {"BR_COND"}, {"BR_PROC"}, {"BR_DEREF"}, {"BR_ARCH"}}

InitXref ==
    /\ \E cells \in [Addrs -> XrefCells], xrefs \in XrefTables({REF_CODE}, XrefFlags),
          func \in FuncMaps :
           vw = Workspace(cells, xrefs, func)
    /\ \E a \in Addrs : OneRequest(a, "eax")

SpecXref == InitXref /\ [][Next]_vars

(***************************************************************************)
(* The fourth family: calls through either register, and definitions of    *)
(* both registers, for resolve_indirect_call.                              *)
(***************************************************************************)
I_call_eax == Op("call", <<i386RegOper("eax")>>, {})
I_call_ebx == Op("call", <<i386RegOper("ebx")>>, {})
I_call_mem == Op("call", <<i386RegMemOper("eax")>>, {})
I_mov_ebx == Op("mov", <<i386RegOper("ebx"), i386ImmMemOper(4198400)>>, {})

ResolveCells == {OpCell(I_call_eax), OpCell(I_call_ebx), OpCell(I_call_mem),
                 OpCell(I_mov), OpCell(I_mov_ebx), OpCell(I_nop), DataCell}

\* Request 1 is about to call resolve_indirect_call(vw, a); it names no register.
OneResolve(a) ==
    /\ va = [i \in Reqs |-> IF i = 1 THEN a ELSE 1]
    /\ reg = [i \in Reqs |-> NoReg]
    /\ pc = [i \in Reqs |-> IF i = 1 THEN "resolve" ELSE "off"]
    /\ q = [i \in Reqs |-> <<>>]
    /\ seen = [i \in Reqs |-> {}]
    /\ parsed = [i \in Reqs |-> <<>>]
    /\ result = [i \in Reqs |-> <<>>]

InitResolve ==
    /\ \E cells \in [Addrs -> ResolveCells], xrefs \in XrefTables({REF_CODE}, {{}}) :
           vw = Workspace(cells, xrefs, [a \in Addrs |-> 1])
    /\ \E a \in Addrs : OneResolve(a)

SpecResolve == InitResolve /\ [][NextResolve]_vars

(***************************************************************************)
(* The fifth family: every request is a call of find_definition, by        *)
(* threads whose loop iterations interleave in any order.                  *)
(***************************************************************************)
ThreadCells == {OpCell(I_nop), OpCell(I_mov), DataCell}

AllRequests ==
    /\ va \in [Reqs -> Addrs]
    /\ reg \in [Reqs -> Regs]
    /\ pc = [i \in Reqs |-> "idle"]
    /\ q = [i \in Reqs |-> <<>>]
    /\ seen = [i \in Reqs |-> {}]
    /\ parsed = [i \in Reqs |-> <<>>]
    /\ result = [i \in Reqs |-> <<>>]

InitThreads ==
    /\ \E cells \in [Addrs -> ThreadCells], xrefs \in XrefTables({REF_CODE}, {{}}) :
           vw = Workspace(cells, xrefs, [a \in Addrs |-> 1])
    /\ AllRequests

SpecThreads == InitThreads /\ [][Next]_vars

\* The same requests made one after the other, over a workspace that also
\* holds a destructive instruction other than mov.
SeqCells == ThreadCells \cup {OpCell(I_pop)}

InitSeq ==
    /\ \E cells \in [Addrs -> SeqCells], xrefs \in XrefTables({REF_CODE}, {{}}) :
           vw = Workspace(cells, xrefs, [a \in Addrs |-> 1])
    /\ AllRequests

SpecSeq == InitSeq /\ [][NextSeq]_vars

(***************************************************************************)
(* The sixth family: locations of every kind before the address, with and  *)
(* without the no-fallthrough flag, and references of both types, for      *)
(* get_previous_instructions.                                              *)
(***************************************************************************)
I_jmp == Op("jmp", <<i386PcRelOper(32)>>, {IF_NOFALL})

PrevCells == {OpCell(I_nop), OpCell(I_ret), OpCell(I_jmp), DataCell, GapCell}

\* Request 1 is about to call get_previous_instructions(vw, a).
OneListing(a) ==
    /\ va = [i \in Reqs |-> IF i = 1 THEN a ELSE 1]
    /\ reg = [i \in Reqs |-> NoReg]
    /\ pc = [i \in Reqs |-> IF i = 1 THEN "list" ELSE "off"]
    /\ q = [i \in Reqs |-> <<>>]
    /\ seen = [i \in Reqs |-> {}]
    /\ parsed = [i \in Reqs |-> <<>>]
    /\ result = [i \in Reqs |-> <<>>]

InitPrev ==
    /\ \E cells \in [Addrs -> PrevCells],
          xrefs \in XrefTables({REF_CODE, REF_DATA}, CfgFlags) :
           vw = Workspace(cells, xrefs, [a \in Addrs |-> 1])
    /\ \E a \in Addrs : OneListing(a)

SpecPrev == InitPrev /\ [][NextPrev]_vars

Spec == Init /\ [][Next]_vars

\* The call runs on: Python executes the next statement of a running function.
FairSpec == Init /\ [][Next]_vars /\ WF_vars(Next)

(***************************************************************************)
(* The words of the claims, read off the workspace alone.                  *)
(***************************************************************************)
Range(s) == {s[i] : i \in 1..Len(s)}

NoDuplicates(s) == \A i, j \in 1..Len(s) : s[i] = s[j] => i = j

\* p is the adjacent, decoded instruction before a and falls through to it.
FallsInto(p, a) ==
    /\ p \in Addrs /\ p = a - 1
    /\ vw.loc[p].ltype = "LOC_OP"
    /\ "IF_NOFALL" \notin vw.loc[p].tinfo

\* The code cross-references to a, far or not.
CodeXrefsTo(a) == SelectSeq(vw.xrefs_by_to[a], LAMBDA x : x[3] = "REF_CODE")

IsFarXref(x) == \E f \in {"BR_PROC", "BR_DEREF", "BR_ARCH"} : f \in x[4]

\* A jump edge p -> a: a code cross-reference that is no far branch.
JumpsTo(p, a) == \E i \in 1..Len(CodeXrefsTo(a)) :
                     CodeXrefsTo(a)[i][1] = p /\ ~IsFarXref(CodeXrefsTo(a)[i])

\* A predecessor edge p -> a.
FlowsTo(p, a) == FallsInto(p, a) \/ JumpsTo(p, a)

RECURSIVE BackFrom(_, _)
\* The addresses reached from the set S in at most n backward steps, S included.
BackFrom(S, n) ==
    IF n = 0 THEN S
    ELSE BackFrom(S \cup {p \in Addrs : \E a \in S : FlowsTo(p, a)}, n - 1)

\* The addresses reachable backward from a in one step or more.
BackReach(a) == BackFrom({p \in Addrs : FlowsTo(p, a)}, NumAddr)

\* The instruction at a is a destructive write to register r.
IsWrite(a, r) ==
    /\ vw.code[a] # NoInsn
    /\ vw.code[a].mnem \in {"mov", "lea", "pop", "xor"}
    /\ Len(vw.code[a].opers) >= 1
    /\ vw.code[a].opers[1] = i386RegOper(r)

\* Some address of the workspace lies on a cycle of predecessor edges.
OnCycle(a) == a \in BackReach(a)

(***************************************************************************)
(* C1                                                                      *)
(***************************************************************************)
\* C1, as amended: on every workspace, cyclic or not, and for every start
\* address and register, find_definition ends: it returns a pair, raises
\* NotFoundError, or the decoder's failure leaves it; and no address is handed
\* to the decoder twice during the call.
C1_TerminatesVisitingOnce ==
    /\ <>(pc[1] \in {"returned", "NotFoundError", "decode_error"})
    /\ [](NoDuplicates(parsed[1]))

\* C1 is met on a cycle: the search went around a loop, met an address again,
\* and ended with every address parsed once.
C1_Witness ==
    /\ pc[1] = "NotFoundError"
    /\ Len(parsed[1]) = NumAddr
    /\ \A a \in Addrs : OnCycle(a)

\* C1 as first stated: a call that has ended returned a pair or raised
\* NotFoundError, and parsed no address twice.
C1_AsStated ==
    /\ pc[1] \notin {"idle", "loop"} => pc[1] \in {"returned", "NotFoundError"}
    /\ NoDuplicates(parsed[1])

(***************************************************************************)
(* C2                                                                      *)
(***************************************************************************)
\* No instruction reachable backward from the start address writes the register.
NoWriteReachable(r) == \A a \in BackReach(va[r]) : ~IsWrite(a, reg[r])

Ended(r) == pc[r] \in {"returned", "NotFoundError", "decode_error"}

\* C2, as amended: if no instruction reachable backward from the call through
\* predecessor edges is a destructive write to the register, find_definition
\* returns no pair: it raises NotFoundError, unless an address reachable
\* backward does not decode, and then the decoder's failure may end it instead.
C2_NoWriteNoPair ==
    (Ended(1) /\ NoWriteReachable(1)) =>
        /\ result[1] = <<>>
        /\ pc[1] # "returned"
        /\ (\A a \in BackReach(va[1]) : vw.code[a] # NoInsn) => pc[1] = "NotFoundError"

\* C2 is met after a search through several instructions, none a write.
C2_Witness ==
    /\ pc[1] = "NotFoundError"
    /\ NoWriteReachable(1)
    /\ Len(parsed[1]) >= 2
    /\ \E a \in BackReach(va[1]) : IsWrite(a, IF reg[1] = "eax" THEN "ebx" ELSE "eax")

\* C2 as first stated: with no destructive write reachable, the call ends with
\* NotFoundError and no pair.
C2_AsStated ==
    (Ended(1) /\ NoWriteReachable(1)) => (pc[1] = "NotFoundError" /\ result[1] = <<>>)

(***************************************************************************)
(* C3                                                                      *)
(***************************************************************************)
\* The predecessors of a in the order the claim gives: fallthrough first, then
\* the jump edges in the order the workspace lists them.
RECURSIVE JumpSources(_)
JumpSources(xrefs) ==
    IF xrefs = <<>> THEN <<>>
    ELSE (IF IsFarXref(Head(xrefs)) THEN <<>> ELSE <<Head(xrefs)[1]>>)
         \o JumpSources(Tail(xrefs))

PredList(a) ==
    (IF a - 1 \in Addrs /\ FallsInto(a - 1, a) THEN <<a - 1>> ELSE <<>>)
    \o JumpSources(CodeXrefsTo(a))

RECURSIVE FifoOrder(_, _)
\* The order a first-in first-out traversal dequeues new addresses in.
FifoOrder(queue, visited) ==
    IF queue = <<>> THEN <<>>
    ELSE IF Head(queue) \in visited THEN FifoOrder(Tail(queue), visited)
    ELSE <<Head(queue)>>
         \o FifoOrder(Tail(queue) \o PredList(Head(queue)), visited \cup {Head(queue)})

DequeueOrder(a) == FifoOrder(PredList(a), {})

\* The place of the first destructive write to r in the sequence, 0 if none.
FirstWriteIn(order, r) ==
    IF \E i \in 1..Len(order) : IsWrite(order[i], r)
    THEN CHOOSE i \in 1..Len(order) :
             IsWrite(order[i], r) /\ \A j \in 1..(i - 1) : ~IsWrite(order[j], r)
    ELSE 0

\* Two backward paths merge at the call or before it, and a different
\* instruction defines the register on each.
MergedDefinitions(r) ==
    \E j \in {va[r]} \cup BackReach(va[r]) :
      \E p1, p2 \in Addrs :
        /\ p1 # p2 /\ FlowsTo(p1, j) /\ FlowsTo(p2, j)
        /\ \E w1 \in BackFrom({p1}, NumAddr), w2 \in BackFrom({p2}, NumAddr) :
             w1 # w2 /\ IsWrite(w1, reg[r]) /\ IsWrite(w2, reg[r])

\* C3, as amended: when backward paths merge with different definitions of the
\* register, find_definition returns one pair, for the first destructive write
\* in first-in first-out dequeue order (fallthrough before cross-references,
\* these in the workspace's order), provided every address dequeued before it
\* decodes; otherwise the decoder's failure ends the call.
C3_FirstInFifoOrder ==
    (Ended(1) /\ MergedDefinitions(1)) =>
        LET order == DequeueOrder(va[1])
            k == FirstWriteIn(order, reg[1])
        IN /\ k # 0
           /\ IF \A i \in 1..k : vw.code[order[i]] # NoInsn
              THEN /\ pc[1] = "returned"
                   /\ Len(result[1]) = 2
                   /\ result[1][1] = order[k]
              ELSE pc[1] = "decode_error" /\ result[1] = <<>>

\* C3 is met where the paths define the register differently, a constant on
\* one and an unknown value on the other, and the write returned was not the
\* first address dequeued.
C3_Witness ==
    /\ pc[1] = "returned"
    /\ MergedDefinitions(1)
    /\ Len(parsed[1]) >= 2
    /\ \E a, b \in BackReach(va[1]) :
          /\ IsWrite(a, reg[1]) /\ IsWrite(b, reg[1])
          /\ vw.code[a].mnem = "mov" /\ vw.code[b].mnem = "pop"

\* C3 as first stated: with merged definitions the call does not raise and
\* returns the first destructive write in dequeue order.
C3_AsStated ==
    (Ended(1) /\ MergedDefinitions(1)) =>
        /\ pc[1] = "returned"
        /\ result[1][1] = DequeueOrder(va[1])[FirstWriteIn(DequeueOrder(va[1]), reg[1])]

(***************************************************************************)
(* C4                                                                      *)
(***************************************************************************)
\* The address parsed last.
LastParsed(r) == parsed[r][Len(parsed[r])]

\* What the claim gives for the second operand of the mov at a.
MovValue(a) ==
    LET src == vw.code[a].opers[2] IN
    CASE src.cls = "i386ImmOper" -> <<src.imm>>
      [] src.cls = "i386ImmMemOper" -> <<src.imm>>
      [] src.cls = "Amd64RipRelOper" -> <<a + vw.code[a].size + src.imm>>
      [] OTHER -> <<>>

\* C4: a search that stops at a mov to the register returns the address of
\* that mov with the literal of an immediate, the address an absolute memory
\* operand names, the absolute address of a RIP-relative operand, and None for
\* every other second operand.
C4_MovValue ==
    (pc[1] = "returned" /\ vw.code[LastParsed(1)].mnem = "mov") =>
        /\ IsWrite(LastParsed(1), reg[1])
        /\ result[1] = <<LastParsed(1), MovValue(LastParsed(1))>>

\* C4 is met at a RIP-relative load.
C4_Witness ==
    /\ pc[1] = "returned"
    /\ vw.code[result[1][1]].mnem = "mov"
    /\ vw.code[result[1][1]].opers[2].cls = "Amd64RipRelOper"
    /\ result[1][2] # <<>>

(***************************************************************************)
(* C6                                                                      *)
(***************************************************************************)
\* C6: a search that stops at a destructive write that is no mov (a pop, lea
\* or xor) returns that address and None, whatever the other operands.
C6_NotMovUnknown ==
    (pc[1] = "returned" /\ vw.code[LastParsed(1)].mnem # "mov") =>
        /\ vw.code[LastParsed(1)].mnem \in {"pop", "lea", "xor"}
        /\ IsWrite(LastParsed(1), reg[1])
        /\ result[1] = <<LastParsed(1), <<>> >>

\* C6 is met at a lea whose operand names an absolute address.
C6_Witness ==
    /\ pc[1] = "returned"
    /\ vw.code[result[1][1]].mnem = "lea"
    /\ vw.code[result[1][1]].opers[2].cls = "i386ImmMemOper"
    /\ result[1][2] = <<>>

(***************************************************************************)
(* C9                                                                      *)
(***************************************************************************)
\* The instruction at a is a call whose target operand is a bare register.
IsRegisterCall(a) ==
    /\ vw.code[a].mnem = "call"
    /\ vw.code[a].opers[1] \in {i386RegOper(r) : r \in Regs}

\* C9: is_indirect_call answers true exactly for a call whose target operand
\* is a bare register, and false for every other instruction.
C9_IndirectCallIff ==
    pc[1] = "classified" => result[1] = <<IsRegisterCall(va[1])>>

\* C9 is met at a call through a register, answered true.
C9_Witness ==
    /\ pc[1] = "classified"
    /\ result[1] = <<TRUE>>
    /\ vw.code[va[1]].mnem = "call"

(***************************************************************************)
(* C5                                                                      *)
(***************************************************************************)
\* The instruction right before the call is adjacent, decoded, falls through
\* and is a destructive write to the register.
AdjacentWrite(r) ==
    /\ va[r] - 1 \in Addrs
    /\ FallsInto(va[r] - 1, va[r])
    /\ IsWrite(va[r] - 1, reg[r])

\* C5: when the instruction right before the call is a destructive write to
\* the register, it is the first address dequeued and the call returns it,
\* with 0x1234 for `mov reg, 0x1234`, whatever jump edges enter the call site.
C5_AdjacentWriteWins ==
    AdjacentWrite(1) =>
        /\ pc[1] = "loop" => (parsed[1] = <<>> /\ q[1] # <<>> /\ Head(q[1]) = va[1] - 1)
        /\ Ended(1) =>
             /\ pc[1] = "returned"
             /\ result[1][1] = va[1] - 1
             /\ vw.code[va[1] - 1] = I_mov => result[1][2] = <<4660>>

\* C5 is met where two jump edges from another definition also enter the call.
C5_Witness ==
    /\ pc[1] = "returned"
    /\ AdjacentWrite(1)
    /\ vw.code[va[1] - 1] = I_mov
    /\ Len(CodeXrefsTo(va[1])) = 2
    /\ \E p \in Addrs : p # va[1] - 1 /\ JumpsTo(p, va[1]) /\ vw.code[p] = I_pop

(***************************************************************************)
(* C7                                                                      *)
(***************************************************************************)
\* The instruction at a has no operands, or its first operand is not register
\* r, or its mnemonic is not destructive.
NotDefining(a, r) ==
    /\ vw.code[a] # NoInsn
    /\ \/ Len(vw.code[a].opers) = 0
       \/ vw.code[a].opers[1] # i386RegOper(r)
       \/ vw.code[a].mnem \notin {"mov", "lea", "pop", "xor"}

\* C7: dequeuing a new instruction that is no destructive write to the
\* register never ends the search: its predecessors are appended to the queue
\* and the search goes on; and the search gives up only when no destructive
\* write is reachable backward.
C7_SearchContinues ==
    /\ [][(/\ pc[1] = "loop" /\ q[1] # <<>>
           /\ Head(q[1]) \notin seen[1]
           /\ NotDefining(Head(q[1]), reg[1]))
          => (/\ pc'[1] = "loop"
              /\ result'[1] = <<>>
              /\ q'[1] = Tail(q[1]) \o PredList(Head(q[1])))]_vars
    /\ [](pc[1] = "NotFoundError" => \A a \in BackReach(va[1]) : ~IsWrite(a, reg[1]))

\* C7 is met where the write is found behind an instruction without operands
\* and an add to the register.
C7_Witness ==
    /\ pc[1] = "returned"
    /\ Len(parsed[1]) = 3
    /\ Len(vw.code[parsed[1][1]].opers) = 0
    /\ vw.code[parsed[1][2]].mnem = "add"
    /\ vw.code[parsed[1][2]].opers[1] = i386RegOper(reg[1])

(***************************************************************************)
(* C8                                                                      *)
(***************************************************************************)
\* Some code cross-reference from p to a is a far branch.
FarXrefTo(p, a) == \E i \in 1..Len(CodeXrefsTo(a)) :
                       CodeXrefsTo(a)[i][1] = p /\ IsFarXref(CodeXrefsTo(a)[i])

\* C8: what get_previous_instructions(va) returns holds only addresses with a
\* fallthrough or jump edge to va, none connected by far cross-references
\* alone; and find_definition parses only addresses reachable backward through
\* such edges.
C8_NoFarPredecessors ==
    /\ (pc[1] = "loop" /\ seen[1] = {}) => \A p \in Range(q[1]) : FlowsTo(p, va[1])
    /\ \A p \in Range(q[1]) \cup Range(parsed[1]) : p \in BackReach(va[1])

\* C8 is met where a definition of the register lies behind a far
\* cross-reference to an address the search parsed, and is not reached.
C8_Witness ==
    /\ pc[1] = "NotFoundError"
    /\ parsed[1] # <<>>
    /\ \E f \in Addrs :
          /\ IsWrite(f, reg[1])
          /\ f \notin BackReach(va[1])
          /\ \E a \in Range(parsed[1]) : FarXrefTo(f, a) /\ {"BR_DEREF"} = CodeXrefsTo(a)[1][4]

(***************************************************************************)
(* C10                                                                     *)
(***************************************************************************)
\* a is the entry of its function and no jump edge leads to it.
IsFunctionEntry(a) == vw.func[a] = a /\ \A p \in Addrs : ~JumpsTo(p, a)

\* C10 as stated: what get_previous_instructions(va) returns holds only
\* addresses of the function of va, and is empty when va is a function's entry.
C10_AsStated ==
    (pc[1] = "loop" /\ seen[1] = {}) =>
        /\ \A p \in Range(q[1]) : vw.func[p] = vw.func[va[1]]
        /\ IsFunctionEntry(va[1]) => q[1] = <<>>

(***************************************************************************)
(* C11                                                                     *)
(***************************************************************************)
\* How request r ended and what it returned.
Outcome(r) == <<pc[r], result[r]>>

\* C11: at an address whose instruction is an indirect call,
\* resolve_indirect_call ends as find_definition called with that address and
\* the register of the call's operand ends: the same pair, NotFoundError when
\* and only when find_definition raises it, and never anything of its own.
C11_ResolveIsFindDefinition ==
    (pc[1] \notin {"resolve", "loop"} /\ vw.code[va[1]] # NoInsn /\ IsRegisterCall(va[1])) =>
        /\ Outcome(1) = find_definition(vw, va[1], vw.code[va[1]].opers[1].reg)
        /\ pc[1] \in {"returned", "NotFoundError", "decode_error"}
        /\ pc[1] = "returned" => Len(result[1]) = 2

\* C11 is met at a call through ebx: the definition of eax met first is passed
\* over and the definition of ebx is returned with its constant.
C11_Witness ==
    /\ pc[1] = "returned"
    /\ vw.code[va[1]] = I_call_ebx
    /\ Len(parsed[1]) >= 2
    /\ vw.code[parsed[1][1]] = I_mov
    /\ result[1][2] = <<4198400>>

(***************************************************************************)
(* C12                                                                     *)
(***************************************************************************)
\* Everything request r holds.
Locals(r) == <<va[r], reg[r], pc[r], q[r], seen[r], parsed[r], result[r]>>

\* C12: however the steps of the requests interleave over the workspace, each
\* request ends as find_definition called alone with its address and register
\* ends; a step changes the queue and visited set of one request only, and
\* leaves the workspace as it was.
C12_InterleavedAsAlone ==
    /\ [](\A r \in Reqs : Ended(r) => Outcome(r) = find_definition(vw, va[r], reg[r]))
    /\ [][/\ vw' = vw
          /\ \A r1, r2 \in Reqs :
                r1 # r2 => (Locals(r1)' = Locals(r1) \/ Locals(r2)' = Locals(r2))]_vars

\* C12 is met where two requests for different registers are both in the
\* middle of their searches and have visited a common address.
C12_Witness ==
    /\ pc[1] = "loop" /\ pc[2] = "loop"
    /\ reg[1] # reg[2]
    /\ q[1] # <<>> /\ q[2] # <<>>
    /\ seen[1] \cap seen[2] # {}

(***************************************************************************)
(* C13                                                                     *)
(***************************************************************************)
\* The addresses reached backward from a in at least one and at most n steps.
WithinSteps(a, n) == BackFrom({p \in Addrs : FlowsTo(p, a)}, n - 1)

\* The least number of backward steps from a to w, for w reachable backward.
Distance(a, w) ==
    CHOOSE n \in 1..NumAddr :
        /\ w \in WithinSteps(a, n)
        /\ \A m \in 1..(n - 1) : w \notin WithinSteps(a, m)

\* C13: the address find_definition returns is a destructive write to the
\* register reachable backward from the start, and no destructive write to
\* the register is reachable in fewer backward steps.
C13_NearestWrite ==
    pc[1] = "returned" =>
        /\ result[1][1] \in BackReach(va[1])
        /\ IsWrite(result[1][1], reg[1])
        /\ \A w \in BackReach(va[1]) :
              IsWrite(w, reg[1]) => Distance(va[1], result[1][1]) <= Distance(va[1], w)

\* C13 is met where the write returned is two steps back and another write to
\* the register lies further back.
C13_Witness ==
    /\ pc[1] = "returned"
    /\ Distance(va[1], result[1][1]) = 2
    /\ \E w \in BackReach(va[1]) :
          IsWrite(w, reg[1]) /\ Distance(va[1], w) > Distance(va[1], result[1][1])

(***************************************************************************)
(* C14                                                                     *)
(***************************************************************************)
RECURSIVE ThroughFrom(_, _, _)
\* S and the addresses reached from it in at most n backward steps that leave
\* only instructions that are no destructive write to r.
ThroughFrom(S, r, n) ==
    IF n = 0 THEN S
    ELSE ThroughFrom(S \cup {p \in Addrs : \E a \in S : NotDefining(a, r) /\ FlowsTo(p, a)},
                     r, n - 1)

\* The addresses reachable backward from a through non-defining instructions.
ReachThroughNonDefining(a, r) == ThroughFrom({p \in Addrs : FlowsTo(p, a)}, r, NumAddr)

\* C14: find_definition raises NotFoundError only with its queue empty, every
\* address reachable backward parsed and none of them a destructive write to
\* the register; and when a destructive write is reachable backward through
\* non-defining instructions and every reachable address decodes, it returns
\* a pair.
C14_NotFoundOnlyExhausted ==
    /\ pc[1] = "NotFoundError" =>
          /\ q[1] = <<>>
          /\ Range(parsed[1]) = BackReach(va[1])
          /\ \A a \in BackReach(va[1]) : ~IsWrite(a, reg[1])
    /\ (/\ Ended(1)
        /\ \E w \in ReachThroughNonDefining(va[1], reg[1]) : IsWrite(w, reg[1])
        /\ \A a \in BackReach(va[1]) : vw.code[a] # NoInsn)
       => (pc[1] = "returned" /\ Len(result[1]) = 2 /\ IsWrite(result[1][1], reg[1]))

\* C14 is met where the only destructive write is a pop found last, behind
\* two non-defining instructions.
C14_Witness ==
    /\ pc[1] = "returned"
    /\ Len(parsed[1]) = NumAddr
    /\ vw.code[result[1][1]].mnem = "pop"
    /\ \A a \in BackReach(va[1]) : vw.code[a] # NoInsn
    /\ \A i \in 1..(NumAddr - 1) : NotDefining(parsed[1][i], reg[1])

(***************************************************************************)
(* C17                                                                     *)
(***************************************************************************)
\* The search is about to dequeue an address it has not visited and that does
\* not decode.
DequeuesUndecodable(r) ==
    /\ pc[r] = "loop"
    /\ q[r] # <<>>
    /\ Head(q[r]) \notin seen[r]
    /\ vw.code[Head(q[r])] = NoInsn

\* C17: when the search dequeues a new address that does not decode, the call
\* ends there with the decoder's failure: it does not go on, raises no
\* NotFoundError and returns no pair, then or later.
C17_DecodeFailurePropagates ==
    /\ [][DequeuesUndecodable(1) => (pc'[1] = "decode_error" /\ result'[1] = <<>>)]_vars
    /\ [][pc[1] = "decode_error" => (pc'[1] = "decode_error" /\ result'[1] = <<>>)]_vars
    /\ [](pc[1] = "decode_error" =>
            /\ result[1] = <<>>
            /\ parsed[1] # <<>>
            /\ vw.code[LastParsed(1)] = NoInsn)

\* C17 is met where the failure comes after an instruction was searched
\* through, with a destructive write to the register still reachable.
C17_Witness ==
    /\ pc[1] = "decode_error"
    /\ Len(parsed[1]) >= 2
    /\ \E w \in BackReach(va[1]) : IsWrite(w, reg[1])

(***************************************************************************)
(* C15                                                                     *)
(***************************************************************************)
\* A location ends right before a.
PrevExists(a) == a - 1 \in Addrs /\ vw.loc[a - 1].ltype # "none"

\* The location right before a is a decoded instruction: not data.
PrevIsInstruction(a) == PrevExists(a) /\ vw.loc[a - 1].ltype = "LOC_OP"

\* The instruction right before a carries the no-fallthrough flag.
PrevNoFall(a) == "IF_NOFALL" \in vw.loc[a - 1].tinfo

\* The number of times p stands in the list.
Occurrences(list, p) == Cardinality({i \in 1..Len(list) : list[i] = p})

\* C15: get_previous_instructions(va) lists the location right before va as
\* the fallthrough predecessor, first and once, exactly when that location
\* exists, is adjacent, is a decoded instruction and does not carry the
\* no-fallthrough flag; an adjacent instruction that does not fall through is
\* listed only as the source of a code cross-reference that is no far branch.
C15_FallthroughIff ==
    pc[1] = "listed" =>
        LET ret == result[1][1]
            a == va[1]
            jumps == JumpSources(CodeXrefsTo(a))
        IN /\ IF PrevIsInstruction(a) /\ ~PrevNoFall(a)
              THEN ret = <<a - 1>> \o jumps
              ELSE ret = jumps
           /\ (PrevIsInstruction(a) /\ PrevNoFall(a)) =>
                 /\ (a - 1) \in Range(ret) <=> JumpsTo(a - 1, a)
                 /\ Occurrences(ret, a - 1) = Occurrences(jumps, a - 1)

\* C15 is met at an address right behind a jmp: the jmp does not fall through
\* and is listed once, as the source of its jump to the address, while a call
\* from it to the same address is passed over.
C15_Witness ==
    /\ pc[1] = "listed"
    /\ va[1] > 1
    /\ vw.code[va[1] - 1] = I_jmp
    /\ result[1][1] = <<va[1] - 1>>
    /\ FarXrefTo(va[1] - 1, va[1])

(***************************************************************************)
(* C16                                                                     *)
(***************************************************************************)
\* C16: a call leaves the workspace as it was; it starts with an empty visited
\* set and a worklist holding the predecessors of its address only, whatever
\* the calls before it visited; it ends as find_definition ends on the
\* workspace with its address and register; and two calls with the same
\* address and register end alike, having parsed the same addresses.
C16_OutcomeOfStoreAndRequest ==
    /\ [][vw' = vw]_vars
    /\ [][\A r \in Reqs :
            (pc[r] = "idle" /\ pc'[r] = "loop") =>
                (seen'[r] = {} /\ q'[r] = PredList(va[r]))]_vars
    /\ [](\A r \in Reqs : Ended(r) => Outcome(r) = find_definition(vw, va[r], reg[r]))
    /\ [](\A r1, r2 \in Reqs :
            (Ended(r1) /\ Ended(r2) /\ va[r1] = va[r2] /\ reg[r1] = reg[r2]) =>
                (Outcome(r1) = Outcome(r2) /\ parsed[r1] = parsed[r2]))

\* C16 is met where a call that searched through several instructions and
\* returned a pair is repeated and returns the same pair.
C16_Witness ==
    /\ pc[1] = "returned" /\ pc[2] = "returned"
    /\ va[1] = va[2] /\ reg[1] = reg[2]
    /\ Len(parsed[2]) >= 2
    /\ result[1] = result[2]

=============================================================================
